---- MODULE Spec2Model ----
(***************************************************************************)
(* Model of the vectorize-and-upsert pipeline of utils/cv_vectorize.py and *)
(* of the retry loop of OpenAIManager.embed_texts (utils/openai_manager.py)*)
(*                                                                         *)
(* A text is a sequence of characters.  A vector is a sequence whose       *)
(* length is its dimension; its components stand for the floats the        *)
(* embedding API computed for one text and are written as that text.       *)
(* The store (docs.write, upsert_section) and the embedding API are        *)
(* external: the model records every call made to them and draws their     *)
(* answers from small sets.                                                *)
(***************************************************************************)
EXTENDS Integers, Sequences, FiniteSets, TLC

VARIABLES
    final_json,    \* the input record without its section list
    sections,      \* final_json["sections"]: the input document's sections
    embed_model,   \* the embed_model argument (<<>> when not given)
    batch_size,    \* the batch_size argument of the current run
    dim,           \* dimension of the vectors the embedding API returns in this run
    run,           \* number of the current run on this document (0: none yet)
    pc,            \* position of the current run
    model,         \* local: embed_model or EMBED_MODEL_DEFAULT
    doc_hash,      \* local doc_hash
    items,         \* local items: the surviving (text, meta) pairs
    vectors,       \* local vectors
    i,             \* loop variable of the batching loop
    doc_vector,    \* local doc_vector
    doc_call,      \* how the document-level embedding call ended
    j,             \* number of (item, vector) pairs the upsert loop has taken
    embed_calls,   \* inputs of the openai_mgr.embed_texts calls of this run
    calls,         \* store calls of this run, in order
    log,           \* logger.log_kv events of this run
    exc,           \* the exception the run raised
    result,        \* the VectorizeResult the run returned
    prev,          \* hash keys the previous run passed to the store
    prev_in,       \* the input of the previous run
    e_pc,          \* embed_texts: position
    e_retries,     \* embed_texts: the retries argument
    e_items,       \* embed_texts: items = list(texts)
    e_attempt,     \* embed_texts: loop variable attempt
    e_last_err,    \* embed_texts: last_err
    e_api,         \* embed_texts: outcomes of client.embeddings.create, in order
    e_log,         \* embed_texts: logger.log_kv events
    e_sleeps,      \* embed_texts: arguments of time.sleep, in order
    e_out          \* embed_texts: what the call returned or raised

pvars == <<final_json, sections, embed_model, batch_size, dim, run, pc, model,
           doc_hash, items, vectors, i, doc_vector, doc_call, j, embed_calls,
           calls, log, exc, result, prev, prev_in>>
evars == <<e_pc, e_retries, e_items, e_attempt, e_last_err, e_api, e_log,
           e_sleeps, e_out>>
vars == <<pvars, evars>>

----------------------------------------------------------------------------
(* Bounds of the model *)

MaxSections == 2
MaxBatch == 2
MaxDim == 1
MaxRetries == 3
MaxEntries == 2
MaxSignalLen == 3

\* utils/cv_vectorize.py:26 sets 4000; the model scales the guardrail down
\* so that texts shorter than, equal to and longer than it are all explored.
MAX_CHARS_PER_CHUNK == 1
MaxTextLen == MAX_CHARS_PER_CHUNK + 1

\* "text-embedding-3-large"
EMBED_MODEL_DEFAULT == <<"t">>

Chars == {"a", " "}
NL == "\n"
NUL == "\\x00"

Min(a, b) == IF a < b THEN a ELSE b
Max(a, b) == IF a > b THEN a ELSE b

SeqsUpTo(S, n) == UNION {[1..k -> S] : k \in 0..n}

Texts == SeqsUpTo(Chars, MaxTextLen)
EmbedModels == {<<>>, <<"m">>}
BatchSizes == -1..MaxBatch
Dims == 0..MaxDim
Errors == {"timeout", "rate_limit"}

\* str.strip(), str.lower() and str.split(sep) on strings kept as sequences
\* of characters; " " is the whitespace and "P" the upper-case letter explored
RECURSIVE LStrip(_)
LStrip(s) == IF s # <<>> /\ Head(s) = " " THEN LStrip(Tail(s)) ELSE s

RECURSIVE RStrip(_)
RStrip(s) == IF s # <<>> /\ s[Len(s)] = " " THEN RStrip(SubSeq(s, 1, Len(s) - 1)) ELSE s

Strip(s) == RStrip(LStrip(s))

LowerChar(c) == IF c = "P" THEN "p" ELSE c
Lower(s) == [k \in 1..Len(s) |-> LowerChar(s[k])]

RECURSIVE Split(_, _)
Split(s, sep) ==
    IF \A k \in 1..Len(s) : s[k] # sep THEN <<s>>
    ELSE LET k == CHOOSE n \in 1..Len(s) :
                     s[n] = sep /\ \A m \in 1..(n - 1) : s[m] # sep
         IN <<SubSeq(s, 1, k - 1)>> \o Split(SubSeq(s, k + 1, Len(s)), sep)

\* lst[-1] of a non-empty list
Last(lst) == lst[Len(lst)]

\* The documents explored: page_start and page_end of a section are its
\* ordinal number, section and subsection are absent.  kind tells a mapping
\* ("dict") from a null entry ("None"), whose other fields are unused.
Section(t, k) ==
    [kind |-> "dict", text |-> t, section |-> <<>>, subsection |-> <<>>,
     page_start |-> k, page_end |-> k]
Documents ==
    UNION {{[k \in 1..n |-> Section(ts[k], k)] : ts \in [1..n -> Texts]} : n \in 0..MaxSections}

----------------------------------------------------------------------------
(* Values of the optional keys of final_json and of its extraction *)

Missing == [kind |-> "missing", s |-> <<>>, l |-> <<>>, n |-> 0]
NoneVal == [kind |-> "None", s |-> <<>>, l |-> <<>>, n |-> 0]
StrVal(s) == [kind |-> "str", s |-> s, l |-> <<>>, n |-> 0]
ListVal(l) == [kind |-> "list", s |-> <<>>, l |-> l, n |-> 0]
IntVal(n) == [kind |-> "int", s |-> <<>>, l |-> <<>>, n |-> n]

\* bool(v), a missing key read with .get() being None
ValTruthy(v) ==
    CASE v.kind = "str" -> v.s # <<>>
      [] v.kind = "list" -> v.l # <<>>
      [] v.kind = "int" -> v.n # 0
      [] OTHER -> FALSE

\* str(v or "") for the strings and one-digit numbers explored
StrOrEmpty(v) ==
    IF ~ValTruthy(v) THEN <<>>
    ELSE IF v.kind = "int" THEN <<ToString(v.n)>>
    ELSE v.s

\* final_json["extraction"]: kind "dict" is a mapping with the three keys
\* below (each possibly missing), "int" a truthy value that is no mapping
ExtractionDict(sk, am, ind) ==
    [kind |-> "dict", skills_norm |-> sk, alma_mater |-> am, industries_norm |-> ind]
ExtractionOther(kind) ==
    [kind |-> kind, skills_norm |-> Missing, alma_mater |-> Missing,
     industries_norm |-> Missing]

\* line 83: final_json.get("extraction") or {}
Extraction(fj) ==
    IF fj.extraction.kind \in {"missing", "None"}
    THEN ExtractionDict(Missing, Missing, Missing)
    ELSE fj.extraction

\* lines 126-127; iterating a number raises TypeError
_lower_list(lst) ==
    IF lst.kind = "list"
    THEN [ok |-> TRUE,
          v |-> LET kept == SelectSeq(lst.l, LAMBDA x : x # <<>>)
                IN [k \in 1..Len(kept) |-> Lower(Strip(kept[k]))]]
    ELSE [ok |-> FALSE, v |-> <<>>]

\* lines 131-135 and 139-142: one of the two list signals
NormList(v) ==
    LET given == IF ValTruthy(v) THEN v ELSE ListVal(<<>>)
        pieces == Split(given.s, ",")
        stripped == [k \in 1..Len(pieces) |-> Strip(pieces[k])]
        lst == IF given.kind = "str"
               THEN ListVal(SelectSeq(stripped, LAMBDA x : x # <<>>))
               ELSE given
    IN _lower_list(lst)

\* lines 129-142: ok is FALSE when the step raises TypeError
Signals(extraction) ==
    IF extraction.kind = "dict"
    THEN LET sk == NormList(extraction.skills_norm)
             ind == NormList(extraction.industries_norm)
         IN [ok |-> sk.ok /\ ind.ok, skills_norm |-> sk.v,
             alma_mater |-> StrOrEmpty(extraction.alma_mater),
             industries_norm |-> ind.v]
    ELSE [ok |-> TRUE, skills_norm |-> <<>>, alma_mater |-> <<>>, industries_norm |-> <<>>]

\* line 145
Filename(source) == Last(Split(Last(Split(source, "/")), "\\"))

\* the well-formed record: a candidate, a path, no extraction
FinalJson(cid, src, secs, ext) ==
    [candidate_id |-> cid, source |-> src, sections |-> secs, extraction |-> ext]
PlainJson ==
    FinalJson(StrVal(<<"c">>), StrVal(<<"d", "/", "f">>), "list", ExtractionOther("missing"))

----------------------------------------------------------------------------
(* Python values returned by the store *)

NoDict == [k \in {} |-> TRUE]
PyNone == [kind |-> "None", s |-> "", d |-> NoDict]
PyStr(s) == [kind |-> "str", s |-> s, d |-> NoDict]
PyDict(d) == [kind |-> "dict", s |-> "", d |-> d]

IsDict(v) == v.kind = "dict"
HasKey(v, k) == IsDict(v) /\ k \in DOMAIN v.d

\* bool(v)
Truthy(v) ==
    CASE v.kind = "None" -> FALSE
      [] v.kind = "str" -> v.s # ""
      [] v.kind = "dict" -> DOMAIN v.d # {}

\* str(v) of None and of a str
StrOf(v) == IF v.kind = "None" THEN "None" ELSE v.s

DocRecord == PyDict("sha" :> "x")
DocResults == {PyNone, PyDict(NoDict), DocRecord}

ResOk == PyDict("ok" :> TRUE)
ResOkError == PyDict("ok" :> TRUE @@ "error" :> "x")
ResConflict == PyDict("ok" :> FALSE @@ "error" :> "conflict")
UpsertResults ==
    {PyNone, PyStr("conflict"), PyDict(NoDict), ResConflict, ResOk, ResOkError}

----------------------------------------------------------------------------
(* Pure helpers of utils/cv_vectorize.py *)

\* hashlib.sha256 over a byte string, taken as collision free: the digest
\* is determined by, and determines, the bytes fed to it.
Sha256Hex(bytes) == [sha256 |-> bytes]

_hash_text(s, m) == Sha256Hex(m \o <<NUL>> \o s)

_truncate_OneMore(s, max_chars) ==
    IF s = <<>> THEN <<>>
    ELSE IF Len(s) <= max_chars THEN s
    ELSE SubSeq(s, 1, max_chars + 1)

\* lines 38-43
_truncate(s, max_chars) ==
    IF s = <<>> THEN <<>>
    ELSE IF Len(s) <= max_chars THEN s
    ELSE SubSeq(s, 1, max_chars)

\* sep.join(parts)
RECURSIVE Join(_, _)
Join(parts, sep) ==
    IF parts = <<>> THEN <<>>
    ELSE IF Len(parts) = 1 THEN parts[1]
    ELSE parts[1] \o sep \o Join(Tail(parts), sep)

\* s[lo:hi] with Python's treatment of negative and out-of-range indices
PySlice(s, lo, hi) ==
    LET n == Len(s)
        norm(x) == IF x < 0 THEN Max(x + n, 0) ELSE Min(x, n)
        l == norm(lo)
        h == norm(hi)
    IN IF l >= h THEN <<>> ELSE SubSeq(s, l + 1, h)

DocTextConcat_WithSection(secs) ==
    Join([k \in 1..Len(secs) |-> secs[k].section \o secs[k].text], <<NL, NL>>)

\* line 87; a null entry counts as {} and gives ""
DocTextConcat(secs) == Join([k \in 1..Len(secs) |-> secs[k].text], <<NL, NL>>)

\* lines 91-102: truncate each section's text, skip it when `not txt`
RECURSIVE PrepareItems(_)
PrepareItems(secs) ==
    IF secs = <<>> THEN <<>>
    ELSE LET ch == Head(secs)
             txt == _truncate(ch.text, MAX_CHARS_PER_CHUNK)
             meta == [section |-> Strip(ch.section), subsection |-> Strip(ch.subsection),
                      page_start |-> ch.page_start, page_end |-> ch.page_end]
         IN IF txt = <<>> THEN PrepareItems(Tail(secs))
            ELSE <<[text |-> txt, meta |-> meta]>> \o PrepareItems(Tail(secs))

\* line 93: ch.get on an entry that is None raises AttributeError
HasNoneEntry(secs) == \E k \in 1..Len(secs) : secs[k].kind = "None"
BeforeNoneEntry(secs) ==
    LET n == CHOOSE k \in 1..Len(secs) :
                 secs[k].kind = "None" /\ \A m \in 1..(k - 1) : secs[m].kind # "None"
    IN SubSeq(secs, 1, n - 1)

ItemTexts(its) == [k \in 1..Len(its) |-> its[k].text]

NothingToIndex_NoEarlyExit(its) == FALSE

\* line 105
NothingToIndex(its) == its = <<>>

\* line 112: the step of range(0, len(texts), max(1, int(batch_size)))
BatchStep(bs) == Max(1, bs)

\* line 113
Batch(texts, at, bs) == PySlice(texts, at, at + bs)

DocWriteFailed_NoneOnly(doc_obj) == doc_obj.kind = "None"

\* line 157
DocWriteFailed(doc_obj) == ~Truthy(doc_obj)

UpsertFailed_NonDictOnly(res) == ~IsDict(res)

\* line 180
UpsertFailed(res) == ~IsDict(res) \/ ~(HasKey(res, "ok") /\ res.d["ok"])

\* line 181
UpsertErr(res) ==
    IF IsDict(res) THEN (IF HasKey(res, "error") THEN res.d["error"] ELSE "None")
    ELSE StrOf(res)

SectionEmbedHash_OfVector(text, vec, m) == _hash_text(Join(vec, <<>>), m)

\* line 162
SectionEmbedHash(text, vec, m) == _hash_text(text, m)

\* line 161: number of pairs of zip(items, vectors)
ZipLen(its, vecs) == Min(Len(its), Len(vecs))

\* line 188
VectorDim(v) == IF v # <<>> THEN Len(v) ELSE 0

----------------------------------------------------------------------------
(* The embedding facade as the pipeline sees it: it raises, or it returns  *)
(* the vectors of the first n texts it was given, each of dimension d.     *)

Response(input, n, d) == [k \in 1..n |-> [c \in 1..d |-> input[k]]]
Responses(input, d) == {Response(input, n, d) : n \in 0..Len(input)}

NoExc == [type |-> "", msg |-> <<>>]
NoResult == [returned |-> FALSE, document_sha |-> Sha256Hex(<<>>),
             document_vector_dim |-> 0, sections_indexed |-> 0, model |-> <<>>]
NoPrev == [doc_keys |-> <<>>, sec_keys |-> <<>>, returned |-> FALSE,
           document_sha |-> Sha256Hex(<<>>)]

Propagate_Wrapped(e) == [type |-> "RuntimeError", msg |-> <<e>>]

\* line 114: embed_texts raised and nothing catches it
Propagate(e) == [type |-> e, msg |-> <<>>]

\* one call of openai_mgr.embed_texts, as recorded by the model
EmbedCall(kind, input, err, n) == [kind |-> kind, input |-> input, err |-> err, n |-> n]


NoPrevIn == [final_json |-> PlainJson, sections |-> <<>>]

DocWrites(cs) == SelectSeq(cs, LAMBDA c : c.op = "docs.write")
Upserts(cs) == SelectSeq(cs, LAMBDA c : c.op = "upsert_section")

\* what is kept of a finished run: the hash keys it passed to the store and
\* the document_sha it returned
PrevOf(cs, res) ==
    [doc_keys |-> [k \in 1..Len(DocWrites(cs)) |-> DocWrites(cs)[k].hash],
     sec_keys |-> [k \in 1..Len(Upserts(cs)) |->
                      [parent_sha |-> Upserts(cs)[k].hash,
                       embed_hash |-> Upserts(cs)[k].embed_hash]],
     returned |-> res.returned,
     document_sha |-> res.document_sha]

----------------------------------------------------------------------------
(* vectorize_and_upsert, one action per external call it makes *)

EIdle ==
    /\ e_pc = "idle"
    /\ e_retries = 0
    /\ e_items = <<>>
    /\ e_attempt = 0
    /\ e_last_err = ""
    /\ e_api = <<>>
    /\ e_log = <<>>
    /\ e_sleeps = <<>>
    /\ e_out = [raised |-> FALSE, err |-> "", vecs |-> <<>>]

\* everything but the input: no run has been made
NoRun ==
    /\ batch_size = 0
    /\ dim = 0
    /\ run = 0
    /\ pc = "idle"
    /\ model = <<>>
    /\ doc_hash = Sha256Hex(<<>>)
    /\ items = <<>>
    /\ vectors = <<>>
    /\ i = 0
    /\ doc_vector = <<>>
    /\ doc_call = ""
    /\ j = 0
    /\ embed_calls = <<>>
    /\ calls = <<>>
    /\ log = <<>>
    /\ exc = NoExc
    /\ result = NoResult
    /\ prev = NoPrev
    /\ prev_in = NoPrevIn
    /\ EIdle

Init ==
    /\ final_json = PlainJson
    /\ sections \in Documents
    /\ embed_model \in EmbedModels
    /\ NoRun

\* lines 186-191
Returned(its, dv, dh, m) ==
    [returned |-> TRUE, document_sha |-> dh, document_vector_dim |-> VectorDim(dv),
     sections_indexed |-> Len(its), model |-> m]

\* lines 73-107: derive the inputs, hash the document, prepare the chunks,
\* and return at once when nothing is left to index
EnterWith(bs, fj, secs) ==
    /\ final_json' = fj
    /\ sections' = secs
    /\ run' = run + 1
    /\ batch_size' = bs
    /\ dim' \in Dims
    /\ prev' = IF run = 0 THEN NoPrev ELSE PrevOf(calls, result)
    /\ prev_in' = IF run = 0 THEN NoPrevIn
                  ELSE [final_json |-> final_json, sections |-> sections]
    /\ model' = IF embed_model # <<>> THEN embed_model ELSE EMBED_MODEL_DEFAULT
    /\ doc_hash' = _hash_text(DocTextConcat(secs), model')
    /\ items' = IF HasNoneEntry(secs) THEN PrepareItems(BeforeNoneEntry(secs))
                ELSE PrepareItems(secs)
    /\ vectors' = <<>>
    /\ i' = 0
    /\ j' = 0
    /\ doc_vector' = <<>>
    /\ doc_call' = ""
    /\ embed_calls' = <<>>
    /\ calls' = <<>>
    /\ IF HasNoneEntry(secs)
       THEN /\ exc' = [type |-> "AttributeError",
                       msg |-> <<"'NoneType' object has no attribute 'get'">>]
            /\ log' = <<>>
            /\ result' = NoResult
            /\ pc' = "raised"
       ELSE IF NothingToIndex(items')
       THEN /\ exc' = NoExc
            /\ log' = <<[ev |-> "CV_VEC_SKIP_EMPTY", error |-> ""]>>
            /\ result' = [returned |-> TRUE, document_sha |-> doc_hash',
                          document_vector_dim |-> 0, sections_indexed |-> 0,
                          model |-> model']
            /\ pc' = "returned"
       ELSE /\ exc' = NoExc
            /\ log' = <<>>
            /\ result' = NoResult
            /\ pc' = IF 0 < Len(items') THEN "embed" ELSE "docembed"
    /\ UNCHANGED <<embed_model, evars>>

\* a call on the record and the sections at hand
Enter(bs) == EnterWith(bs, final_json, sections)

\* the call of vectorize_and_upsert on the document
Begin(bs) ==
    /\ pc = "idle"
    /\ Enter(bs)

\* another call on the same document, with the same embed_model, once the
\* previous call has returned or raised
Rerun(bs) ==
    /\ pc \in {"returned", "raised"}
    /\ run = 1
    /\ Enter(bs)

\* lines 112-115: one pass of the batching loop
EmbedBatch ==
    /\ pc = "embed"
    /\ i < Len(items)
    /\ LET batch == Batch(ItemTexts(items), i, batch_size)
           next == i + BatchStep(batch_size)
       IN \/ \E e \in Errors :
               /\ embed_calls' = Append(embed_calls, EmbedCall("chunks", batch, e, 0))
               /\ exc' = Propagate(e)
               /\ pc' = "raised"
               /\ UNCHANGED <<vectors, i>>
          \/ \E vecs \in Responses(batch, dim) :
               /\ embed_calls' = Append(embed_calls, EmbedCall("chunks", batch, "", Len(vecs)))
               /\ vectors' = vectors \o vecs
               /\ i' = next
               /\ pc' = IF next < Len(items) THEN "embed" ELSE "docembed"
               /\ exc' = exc
    /\ UNCHANGED <<final_json, sections, embed_model, batch_size, dim, run, model, doc_hash, items,
                   doc_vector, doc_call, j, calls, log, result, prev, prev_in, evars>>

\* lines 118-122: the optional document-level vector
DocEmbed ==
    /\ pc = "docembed"
    /\ LET input == <<_truncate(DocTextConcat(sections), MAX_CHARS_PER_CHUNK * 2)>>
       IN \/ \* `except Exception` keeps nothing of the error
             /\ embed_calls' = Append(embed_calls, EmbedCall("document", input, "raised", 0))
             /\ doc_call' = "raised"
             /\ doc_vector' = <<>>
          \/ \E vecs \in Responses(input, dim) :
               /\ embed_calls' = Append(embed_calls, EmbedCall("document", input, "", Len(vecs)))
               /\ IF vecs = <<>>
                  THEN doc_call' = "empty" /\ doc_vector' = <<>>
                  ELSE doc_call' = "ok" /\ doc_vector' = vecs[1]
    /\ pc' = "docwrite"
    /\ UNCHANGED <<final_json, sections, embed_model, batch_size, dim, run, model, doc_hash, items,
                   vectors, i, j, calls, log, exc, result, prev, prev_in, evars>>

\* lines 125-158: normalise the routing signals, then write the document
DocWrite ==
    /\ pc = "docwrite"
    /\ LET sig == Signals(Extraction(final_json))
           source == StrOrEmpty(final_json.source)
       IN
       IF ~sig.ok
       THEN /\ exc' = [type |-> "TypeError", msg |-> <<"'int' object is not iterable">>]
            /\ pc' = "raised"
            /\ UNCHANGED <<calls, result>>
       ELSE
       \E doc_obj \in DocResults :
         /\ calls' = Append(calls,
                [op |-> "docs.write", hash |-> doc_hash, embed_hash |-> doc_hash,
                 text |-> DocTextConcat(sections), vector |-> doc_vector,
                 page_start |-> 0, res |-> doc_obj,
                 candidate_id |-> StrOrEmpty(final_json.candidate_id),
                 source |-> source, filename |-> Filename(source),
                 section |-> <<>>, subsection |-> <<>>, page_end |-> 0,
                 skills_norm |-> sig.skills_norm, alma_mater |-> sig.alma_mater,
                 industries_norm |-> sig.industries_norm])
         /\ IF DocWriteFailed(doc_obj)
            THEN /\ exc' = [type |-> "RuntimeError",
                            msg |-> <<"Document write failed or could not be verified in Weaviate">>]
                 /\ pc' = "raised"
                 /\ result' = result
            ELSE IF 0 < ZipLen(items, vectors)
            THEN /\ pc' = "sections"
                 /\ UNCHANGED <<exc, result>>
            ELSE /\ pc' = "returned"
                 /\ result' = Returned(items, doc_vector, doc_hash, model)
                 /\ exc' = exc
    /\ j' = 0
    /\ UNCHANGED <<final_json, sections, embed_model, batch_size, dim, run, model, doc_hash, items,
                   vectors, i, doc_vector, doc_call, embed_calls, log, prev, prev_in, evars>>

\* lines 161-184: one pass of the loop over zip(items, vectors)
UpsertSection ==
    /\ pc = "sections"
    /\ j < ZipLen(items, vectors)
    /\ LET k == j + 1
           text == items[k].text
           vec == vectors[k]
           sig == Signals(Extraction(final_json))
           upsert == [ev |-> "VECTORIZE_SECTION_UPSERT", error |-> ""]
       IN \E res \in UpsertResults :
            /\ calls' = Append(calls,
                   [op |-> "upsert_section", hash |-> doc_hash,
                    embed_hash |-> SectionEmbedHash(text, vec, model),
                    text |-> text, vector |-> vec,
                    page_start |-> items[k].meta.page_start, res |-> res,
                    candidate_id |-> <<>>, source |-> <<>>, filename |-> <<>>,
                    section |-> items[k].meta.section,
                    subsection |-> items[k].meta.subsection,
                    page_end |-> items[k].meta.page_end,
                    skills_norm |-> sig.skills_norm, alma_mater |-> sig.alma_mater,
                    industries_norm |-> sig.industries_norm])
            /\ IF UpsertFailed(res)
               THEN /\ log' = log \o <<upsert, [ev |-> "VECTORIZE_SECTION_UPSERT_FAIL",
                                                error |-> UpsertErr(res)]>>
                    /\ exc' = [type |-> "RuntimeError",
                               msg |-> <<"Section upsert failed: ", UpsertErr(res)>>]
                    /\ pc' = "raised"
                    /\ UNCHANGED <<j, result>>
               ELSE /\ log' = Append(log, upsert)
                    /\ j' = k
                    /\ exc' = exc
                    /\ IF k < ZipLen(items, vectors)
                       THEN pc' = "sections" /\ result' = result
                       ELSE /\ pc' = "returned"
                            /\ result' = Returned(items, doc_vector, doc_hash, model)
    /\ UNCHANGED <<final_json, sections, embed_model, batch_size, dim, run, model, doc_hash, items,
                   vectors, i, doc_vector, doc_call, embed_calls, prev, prev_in, evars>>

Next ==
    \/ \E bs \in BatchSizes : Begin(bs)
    \/ EmbedBatch
    \/ DocEmbed
    \/ DocWrite
    \/ UpsertSection

Spec == Init /\ [][Next]_vars

NextRerun ==
    \/ Next
    \/ \E bs \in BatchSizes : Rerun(bs)

SpecRerun == Init /\ [][NextRerun]_vars

----------------------------------------------------------------------------
(* A second run on the same texts with other metadata *)

\* another candidate, path and extraction
OtherJson ==
    FinalJson(StrVal(<<"e">>), StrVal(<<"g">>), "list",
              ExtractionDict(ListVal(<<<<"P">>>>), StrVal(<<"P">>), Missing))

\* the same texts under other section names and page ranges
Relabel(secs) ==
    [k \in 1..Len(secs) |->
        [secs[k] EXCEPT !.section = <<"s">>, !.subsection = <<"u">>,
                        !.page_start = @ + 1, !.page_end = @ + 2]]

Reindexings(fj, secs) ==
    {[final_json |-> OtherJson, sections |-> secs],
     [final_json |-> fj, sections |-> Relabel(secs)],
     [final_json |-> OtherJson, sections |-> Relabel(secs)]}

\* another call with the same embed_model and batch_size, once the previous
\* call has returned or raised
Reindex ==
    /\ pc \in {"returned", "raised"}
    /\ run = 1
    /\ \E c \in Reindexings(final_json, sections) :
         EnterWith(batch_size, c.final_json, c.sections)

NextReindex ==
    \/ Next
    \/ Reindex

SpecReindex == Init /\ [][NextReindex]_vars

----------------------------------------------------------------------------
(* Runs on records with missing, null or malformed optional fields *)

\* skills_norm / industries_norm as a list of strings, as a comma-separated
\* string, missing, null or a number
SignalEntries == {<<>>, <<" ">>, <<"P">>, <<" ", "P">>}
SignalForms ==
    {Missing, NoneVal, IntVal(0), IntVal(5)}
    \cup {ListVal(l) : l \in SeqsUpTo(SignalEntries, MaxEntries)}
    \cup {StrVal(t) : t \in SeqsUpTo({"P", " ", ","}, MaxSignalLen)}
AlmaForms == {Missing, NoneVal, IntVal(5), StrVal(<<"P">>)}

Extractions ==
    {ExtractionOther(k) : k \in {"missing", "None", "int"}}
    \cup {ExtractionDict(v, Missing, Missing) : v \in SignalForms}
    \cup {ExtractionDict(Missing, Missing, v) : v \in SignalForms}
    \cup {ExtractionDict(Missing, a, Missing) : a \in AlmaForms}

\* a section entry that is null, and one that is a mapping with the text only
\* (page_start and page_end None are written 0)
NoneEntry ==
    [kind |-> "None", text |-> <<>>, section |-> <<>>, subsection |-> <<>>,
     page_start |-> 0, page_end |-> 0]
BareSection(t) ==
    [kind |-> "dict", text |-> t, section |-> <<>>, subsection |-> <<>>,
     page_start |-> 0, page_end |-> 0]
SectionEntries == {Section(<<"a">>, 1), NoneEntry, BareSection(<<>>), BareSection(<<"a">>)}

\* the records explored: PlainJson with its extraction, its candidate_id,
\* its source or its sections replaced, and the record with no key at all
InputCases ==
    {[final_json |-> FinalJson(StrVal(<<"c">>), StrVal(<<"d", "/", "f">>), "list", e),
      sections |-> <<Section(<<"a">>, 1)>>] : e \in Extractions}
    \cup {[final_json |-> FinalJson(c, src, "list", ExtractionOther("missing")),
           sections |-> <<Section(<<"a">>, 1)>>] :
             c \in {Missing, NoneVal, StrVal(<<"c">>)},
             src \in {Missing, NoneVal, StrVal(<<"d", "/", "f">>), StrVal(<<"d", "\\", "f">>)}}
    \cup {[final_json |-> PlainJson, sections |-> secs] :
             secs \in SeqsUpTo(SectionEntries, MaxSections)}
    \cup {[final_json |-> FinalJson(Missing, Missing, k, ExtractionOther("missing")),
           sections |-> <<>>] : k \in {"None", "missing"}}

InitInput ==
    /\ \E c \in InputCases :
         /\ final_json = c.final_json
         /\ sections = c.sections
    /\ embed_model = <<>>
    /\ NoRun

SpecInput == InitInput /\ [][Next]_vars

----------------------------------------------------------------------------
(* OpenAIManager.embed_texts, one action per pass of its retry loop *)

Retries == 0..MaxRetries
EmbedInputs == SeqsUpTo({<<"a">>, <<" ">>}, MaxSections)

InRange_OneMore(attempt, retries) == attempt <= retries + 1

\* line 123: range(1, int(retries) + 1) still has the value attempt
InRange(attempt, retries) == attempt <= retries

\* line 134
Backoff(attempt) == Min(2 ^ attempt, 8)

\* lines 136-138
FinalError(last_err) == IF last_err # "" THEN last_err ELSE "RuntimeError: embed_texts failed"

PIdle ==
    /\ final_json = PlainJson
    /\ sections = <<>>
    /\ embed_model = <<>>
    /\ batch_size = 0
    /\ dim = 0
    /\ run = 0
    /\ pc = "idle"
    /\ model = <<>>
    /\ doc_hash = Sha256Hex(<<>>)
    /\ items = <<>>
    /\ vectors = <<>>
    /\ i = 0
    /\ doc_vector = <<>>
    /\ doc_call = ""
    /\ j = 0
    /\ embed_calls = <<>>
    /\ calls = <<>>
    /\ log = <<>>
    /\ exc = NoExc
    /\ result = NoResult
    /\ prev = NoPrev
    /\ prev_in = NoPrevIn

\* lines 118-122: the state on entering the loop
EInit ==
    /\ PIdle
    /\ e_pc = "loop"
    /\ e_retries \in Retries
    /\ e_items \in EmbedInputs
    /\ e_attempt = 1
    /\ e_last_err = ""
    /\ e_api = <<>>
    /\ e_log = <<>>
    /\ e_sleeps = <<>>
    /\ e_out = [raised |-> FALSE, err |-> "", vecs |-> <<>>]

\* lines 123-134: one attempt
EmbedAttempt ==
    /\ e_pc = "loop"
    /\ InRange(e_attempt, e_retries)
    /\ \/ \E d \in Dims : \E vecs \in Responses(e_items, d) :
            /\ e_api' = Append(e_api, [ok |-> TRUE, err |-> ""])
            /\ e_out' = [raised |-> FALSE, err |-> "", vecs |-> vecs]
            /\ e_pc' = "returned"
            /\ UNCHANGED <<e_attempt, e_last_err, e_log, e_sleeps>>
       \/ \E e \in Errors :
            /\ e_api' = Append(e_api, [ok |-> FALSE, err |-> e])
            /\ e_last_err' = e
            /\ e_log' = Append(e_log, [ev |-> "OPENAI_EMBED_RETRY",
                                       attempt |-> e_attempt, error |-> e])
            /\ e_sleeps' = Append(e_sleeps, Backoff(e_attempt))
            /\ e_attempt' = e_attempt + 1
            /\ UNCHANGED <<e_pc, e_out>>
    /\ UNCHANGED <<e_retries, e_items, pvars>>

\* lines 135-138: the loop ran out of attempts
EmbedGiveUp ==
    /\ e_pc = "loop"
    /\ ~InRange(e_attempt, e_retries)
    /\ e_log' = Append(e_log, [ev |-> "OPENAI_EMBED_FAIL", attempt |-> 0,
                               error |-> IF e_last_err # "" THEN e_last_err ELSE "unknown"])
    /\ e_out' = [raised |-> TRUE, err |-> FinalError(e_last_err), vecs |-> <<>>]
    /\ e_pc' = "raised"
    /\ UNCHANGED <<e_retries, e_items, e_attempt, e_last_err, e_api, e_sleeps, pvars>>

ENext == EmbedAttempt \/ EmbedGiveUp

SpecEmbed == EInit /\ [][ENext]_vars

----------------------------------------------------------------------------
(* Claims *)

U == Upserts(calls)

Whitespace == {" ", NL}
Blank(t) == \A p \in 1..Len(t) : t[p] \in Whitespace

\* the store's answer does not say the upsert went through
ReportsFailure(res) == ~(IsDict(res) /\ HasKey(res, "ok") /\ res.d["ok"])

\* the error strings the store's answer carries
ReportedErrors(res) ==
    IF HasKey(res, "error") THEN {res.d["error"]}
    ELSE IF res.kind = "str" THEN {res.s}
    ELSE {}

\* C1: no upsert_section call is made unless an earlier docs.write of the run
\* returned a truthy record; when docs.write returns a falsy value the run
\* raises and makes no upsert_section call.
C1_SectionsOnlyAfterConfirmedDocument ==
    /\ \A k \in 1..Len(calls) :
         calls[k].op = "upsert_section" =>
           \E m \in 1..(k - 1) : calls[m].op = "docs.write" /\ Truthy(calls[m].res)
    /\ (\E k \in 1..Len(calls) : calls[k].op = "docs.write" /\ ~Truthy(calls[k].res)) =>
         /\ pc = "raised"
         /\ exc.type = "RuntimeError"
         /\ U = <<>>

C1_Witness ==
    /\ pc = "raised"
    /\ Len(calls) = 1
    /\ calls[1].op = "docs.write"
    /\ calls[1].res = PyDict(NoDict)
    /\ ZipLen(items, vectors) = 2

\* C2: after every upsert_section result that is falsy, is not a mapping with
\* a truthy "ok", or carries an error field, the run logs the failure and
\* raises at once; it goes on to the next section only after a result for
\* which none of these hold.
BadUpsertResult(res) ==
    \/ ~Truthy(res)
    \/ ReportsFailure(res)
    \/ HasKey(res, "error")

C2_RaisesOnEveryBadResult ==
    \A k \in 1..Len(U) :
      IF BadUpsertResult(U[k].res)
      THEN /\ k = Len(U)
           /\ pc = "raised"
           /\ exc.type = "RuntimeError"
           /\ log # <<>>
           /\ log[Len(log)].ev = "VECTORIZE_SECTION_UPSERT_FAIL"
      ELSE k < Len(U) \/ pc \in {"sections", "returned"}

\* C3: when the k-th section upsert is the first to fail, exactly k
\* upsert_section calls were made, the store has received the document write
\* and the k section writes and nothing else, no VectorizeResult is returned,
\* and the exception's message contains the error string the store reported.
C3_FailFastWithoutRollback ==
    \A k \in 1..Len(U) :
      (ReportsFailure(U[k].res) /\ \A m \in 1..(k - 1) : ~ReportsFailure(U[m].res)) =>
        /\ Len(U) = k
        /\ pc = "raised"
        /\ ~result.returned
        /\ Len(calls) = k + 1
        /\ calls[1].op = "docs.write"
        /\ \A m \in 1..k : calls[m + 1] = U[m]
        /\ \A e \in ReportedErrors(U[k].res) : \E p \in 1..Len(exc.msg) : exc.msg[p] = e

C3_Witness ==
    /\ pc = "raised"
    /\ Len(U) = 2
    /\ U[1].res = ResOk
    /\ U[2].res = ResConflict
    /\ exc.msg[2] = "conflict"

\* C4: when no ChunkItem survives the filtering, the run returns a
\* VectorizeResult with sections_indexed = 0 and document_vector_dim = 0,
\* raises nothing, and makes no embedding call and no store call.
C4_SkipEmpty ==
    (run >= 1 /\ items = <<>>) =>
      /\ pc = "returned"
      /\ result.returned
      /\ result.sections_indexed = 0
      /\ result.document_vector_dim = 0
      /\ result.document_sha = doc_hash
      /\ exc = NoExc
      /\ embed_calls = <<>>
      /\ calls = <<>>

C4_Witness ==
    /\ pc = "returned"
    /\ Len(sections) = 2
    /\ items = <<>>
    /\ result.sections_indexed = 0

\* C5: when the embedding facade raises for a chunk batch, the run raises
\* that same error and has made no store write, whichever batch failed: the
\* batching loop is over before the first store write.
C5_ChunkEmbeddingFailurePropagates ==
    /\ \A k \in 1..Len(embed_calls) :
         (embed_calls[k].kind = "chunks" /\ embed_calls[k].err # "") =>
           /\ k = Len(embed_calls)
           /\ pc = "raised"
           /\ exc = [type |-> embed_calls[k].err, msg |-> <<>>]
           /\ calls = <<>>
    /\ calls # <<>> => (pc # "embed" /\ i >= Len(items))

C5_Witness ==
    /\ pc = "raised"
    /\ Len(embed_calls) = 2
    /\ embed_calls[1].n = 1
    /\ embed_calls[2].err = "timeout"
    /\ exc.type = "timeout"

\* C6: for an input with at least one non-empty section, a run that returns
\* has made as many upsert_section calls as there are sections whose
\* truncated text is non-empty, and returns that number as sections_indexed.
NonEmptySections ==
    Cardinality({k \in 1..Len(sections) :
                   _truncate(sections[k].text, MAX_CHARS_PER_CHUNK) # <<>>})

C6_OneRecordPerNonEmptySection ==
    (pc = "returned" /\ NonEmptySections >= 1) =>
      /\ Len(U) = NonEmptySections
      /\ result.sections_indexed = Len(U)

\* C7: no text that is empty or only whitespace after truncation is sent to
\* the embedding facade as a chunk or written by upsert_section.
C7_BlankSectionsDropped ==
    /\ \A k \in 1..Len(embed_calls) :
         embed_calls[k].kind = "chunks" =>
           \A p \in 1..Len(embed_calls[k].input) : ~Blank(embed_calls[k].input[p])
    /\ \A k \in 1..Len(U) : ~Blank(U[k].text)

\* C8: with retries = N >= 1, embed_texts calls the API at most N times,
\* makes no call after a successful one and returns its vectors, logs each
\* failed attempt with its number and error, and raises the error of the
\* N-th attempt when all N fail.
C8_RetryBudget ==
    e_retries >= 1 =>
      /\ Len(e_api) <= e_retries
      /\ \A k \in 1..Len(e_api) :
           IF e_api[k].ok
           THEN k = Len(e_api) /\ e_pc = "returned" /\ ~e_out.raised
           ELSE \E p \in 1..Len(e_log) :
                  e_log[p] = [ev |-> "OPENAI_EMBED_RETRY", attempt |-> k,
                              error |-> e_api[k].err]
      /\ e_pc = "returned" => (e_api # <<>> /\ e_api[Len(e_api)].ok)
      /\ e_pc = "raised" =>
           /\ Len(e_api) = e_retries
           /\ \A k \in 1..Len(e_api) : ~e_api[k].ok
           /\ e_out.raised
           /\ e_out.err = e_api[e_retries].err

C8_Witness ==
    /\ e_pc = "raised"
    /\ e_retries = 3
    /\ e_api[1].err = "timeout"
    /\ e_api[3].err = "rate_limit"

\* C9: a failed document-level embedding call (the facade raised, or it
\* returned an empty list) does not abort the run: the document is written
\* with an empty vector, a run that returns has upserted every section with
\* its own vector and returns document_vector_dim = 0; after a successful
\* call document_vector_dim is the length of the vector it returned.
C9_DocumentVectorIsOptional ==
    /\ doc_call \in {"raised", "empty"} =>
         /\ doc_vector = <<>>
         /\ pc # "docembed"
         /\ pc = "raised" => calls # <<>>
         /\ \A k \in 1..Len(calls) : calls[k].op = "docs.write" => calls[k].vector = <<>>
         /\ pc = "returned" =>
              /\ result.document_vector_dim = 0
              /\ Len(U) = Len(items)
              /\ \A k \in 1..Len(U) :
                   U[k].text = items[k].text /\ U[k].vector = vectors[k]
    /\ (doc_call = "ok" /\ pc = "returned") =>
         result.document_vector_dim = Len(doc_vector)

\* C10: a second run on the same document with the same model passes to
\* docs.write the hash the first run passed, passes to upsert_section, for
\* each section position both runs reached, the parent_sha and embed_hash
\* the first run passed there, and returns the same document_sha, whatever
\* the embedding facade returned in either run.
C10_SameHashKeysOnRerun ==
    run = 2 =>
      LET cur == PrevOf(calls, result)
      IN /\ \A k \in 1..Min(Len(cur.doc_keys), Len(prev.doc_keys)) :
              cur.doc_keys[k] = prev.doc_keys[k]
         /\ \A k \in 1..Min(Len(cur.sec_keys), Len(prev.sec_keys)) :
              cur.sec_keys[k] = prev.sec_keys[k]
         /\ \A k \in 1..Len(prev.sec_keys) : prev.sec_keys[k].parent_sha = doc_hash
         /\ (cur.returned /\ prev.returned) => cur.document_sha = prev.document_sha

C10_Witness ==
    /\ run = 2
    /\ pc = "returned"
    /\ prev.returned
    /\ Len(prev.sec_keys) = 2
    /\ Len(items) = 2
    /\ Len(vectors) = 1
    /\ Len(U) = 1
    /\ prev.sec_keys[1].embed_hash = U[1].embed_hash

\* C12: for every batch_size, values below 1 counting as 1, each chunk call
\* of the facade gets a group of at least one and at most max(1, batch_size)
\* texts, the groups taken in order are exactly the surviving texts, and,
\* the facade returning one vector per text, every section upsert carries
\* the vector of its own text.
ChunkCalls == SelectSeq(embed_calls, LAMBDA c : c.kind = "chunks")

RECURSIVE Flatten(_)
Flatten(ss) == IF ss = <<>> THEN <<>> ELSE Head(ss) \o Flatten(Tail(ss))

BatchingDone ==
    \/ pc \in {"docembed", "docwrite", "sections", "returned"}
    \/ pc = "raised" /\ calls # <<>>

C12_BatchesPartitionTexts ==
    /\ \A k \in 1..Len(ChunkCalls) :
         /\ Len(ChunkCalls[k].input) >= 1
         /\ Len(ChunkCalls[k].input) <= Max(1, batch_size)
    /\ (BatchingDone /\ items # <<>>) =>
         Flatten([k \in 1..Len(ChunkCalls) |-> ChunkCalls[k].input]) = ItemTexts(items)
    /\ (\A k \in 1..Len(ChunkCalls) : ChunkCalls[k].n = Len(ChunkCalls[k].input)) =>
         \A k \in 1..Len(U) : U[k].vector = [c \in 1..dim |-> U[k].text]

\* C14: every ChunkItem text is the prefix of length
\* min(len(text), MAX_CHARS_PER_CHUNK) of its section's text, the ChunkItems
\* keep the order of their sections, and no text sent to the facade as a
\* chunk or written by upsert_section is longer than MAX_CHARS_PER_CHUNK.
C14_TruncationBoundary ==
    run >= 1 =>
      /\ \A k \in 1..Len(items) :
           LET s == sections[items[k].meta.page_start].text
           IN items[k].text = SubSeq(s, 1, Min(Len(s), MAX_CHARS_PER_CHUNK))
      /\ \A k \in 1..Len(items) : \A m \in 1..Len(items) :
           k < m => items[k].meta.page_start < items[m].meta.page_start
      /\ \A k \in 1..Len(ChunkCalls) : \A p \in 1..Len(ChunkCalls[k].input) :
           Len(ChunkCalls[k].input[p]) <= MAX_CHARS_PER_CHUNK
      /\ \A k \in 1..Len(U) : Len(U[k].text) <= MAX_CHARS_PER_CHUNK

C14_Witness ==
    /\ pc = "returned"
    /\ Len(sections) = 2
    /\ Len(sections[1].text) = MAX_CHARS_PER_CHUNK
    /\ Len(sections[2].text) = MAX_CHARS_PER_CHUNK + 1
    /\ Len(U) = 2
    /\ U[1].text = sections[1].text
    /\ Len(U[2].text) = MAX_CHARS_PER_CHUNK

\* C17: a run calls docs.write at most once; every upsert_section call
\* carries as parent_sha the hash passed to the run's docs.write, which is
\* also the document_sha returned; the k-th upsert_section call is for the
\* k-th surviving section and is made only after every earlier one returned
\* a successful result.
C17_OneDocumentWriteOrderedUpserts ==
    /\ Len(DocWrites(calls)) <= 1
    /\ \A k \in 1..Len(U) :
         /\ Len(DocWrites(calls)) = 1
         /\ calls[1].op = "docs.write"
         /\ U[k].hash = calls[1].hash
         /\ U[k].text = items[k].text
         /\ U[k].page_start = items[k].meta.page_start
         /\ \A m \in 1..(k - 1) : ~ReportsFailure(U[m].res)
    /\ (result.returned /\ calls # <<>>) => result.document_sha = calls[1].hash

C17_Witness ==
    /\ pc = "returned"
    /\ Len(U) = 2
    /\ U[1].hash = result.document_sha
    /\ U[2].hash = result.document_sha

\* C11: the normalisation of the routing signals never raises, whatever
\* extraction is; a run that reaches the step goes on to docs.write, and a
\* signal whose value is missing, null or of an unexpected type is passed
\* to the store empty.
Usable(v, kinds) == v.kind \in kinds

C11_NormalizationNeverRaises ==
    /\ exc.type # "TypeError"
    /\ (doc_call # "" /\ pc # "docwrite") => (calls # <<>> /\ calls[1].op = "docs.write")
    /\ \A k \in 1..Len(calls) :
         LET e == Extraction(final_json)
         IN /\ ~Usable(e.skills_norm, {"str", "list"}) => calls[k].skills_norm = <<>>
            /\ ~Usable(e.industries_norm, {"str", "list"}) => calls[k].industries_norm = <<>>
            /\ ~Usable(e.alma_mater, {"str"}) => calls[k].alma_mater = <<>>

\* C13: the skills_norm and industries_norm passed to the store are the
\* entries of the input, the elements of a list or the comma-separated
\* pieces of a string, each trimmed and lower-cased, in input order, the
\* empty ones left out; so both forms of the same values give one list.
SignalInputEntries(v) == IF v.kind = "str" THEN Split(v.s, ",") ELSE v.l

NormalizedEntries(v) ==
    LET es == SignalInputEntries(v)
        t == [k \in 1..Len(es) |-> Lower(Strip(es[k]))]
    IN SelectSeq(t, LAMBDA x : x # <<>>)

C13_ListAndStringFormsAgree ==
    \A k \in 1..Len(calls) :
      LET e == Extraction(final_json)
      IN /\ Usable(e.skills_norm, {"str", "list"}) =>
              calls[k].skills_norm = NormalizedEntries(e.skills_norm)
         /\ Usable(e.industries_norm, {"str", "list"}) =>
              calls[k].industries_norm = NormalizedEntries(e.industries_norm)

\* C15: deriving the inputs never raises on a missing or null optional
\* field: candidate_id and source absent or null are passed as "", and a
\* section entry that is null or has no text counts as empty text, so the
\* items are exactly the entries that have a non-empty text.
GivenString(v) == IF v.kind = "str" THEN v.s ELSE <<>>

C15_InputDerivationNeverRaises ==
    run >= 1 =>
      /\ exc.type # "AttributeError"
      /\ Len(items) = Len(SelectSeq(sections, LAMBDA ch : ch.kind = "dict" /\ ch.text # <<>>))
      /\ \A k \in 1..Len(DocWrites(calls)) :
           /\ DocWrites(calls)[k].candidate_id = GivenString(final_json.candidate_id)
           /\ DocWrites(calls)[k].source = GivenString(final_json.source)
           /\ DocWrites(calls)[k].text =
                Join([n \in 1..Len(sections) |-> sections[n].text], <<NL, NL>>)

\* C16: the document hash is a function of the model name and the
\* untruncated section texts joined in order, a section's embed_hash one of
\* the model and its own truncated text; so a second run that differs only
\* in candidate_id, source, extraction or section metadata uses the same
\* document key, returns the same document_sha and gives every section the
\* same embed_hash, and equal texts get equal embed_hashes wherever they
\* stand in the document.
SectionTexts == [k \in 1..Len(sections) |-> sections[k].text]

====
